---- MODULE Spec2Model ----
(***************************************************************************)
(* Layer assembly of the ai-services image processor: SAM segments and    *)
(* OCR text elements are fused into an ordered list of editable layers    *)
(* (ImageProcessor.process_image / _match_segments_with_text).            *)
(*                                                                         *)
(* Floats are modelled exactly: an IoU is a pair <<num, den>> of naturals  *)
(* (den > 0), a threshold such as 0.5 is <<1, 2>>, and comparisons are     *)
(* cross-multiplications.  A segment's float center x + w/2 is the pair    *)
(* <<2x + w, 2>>.                                                          *)
(***************************************************************************)
EXTENDS Integers, Sequences, FiniteSets, TLC

VARIABLES image, sam_masks, ocr_lines, pc, segments, ocr_results, layers,
          matched_text_ids, seg_i, matching, result, prev_result, calls,
          fn_in, fn_out,
          route_pc, upload, filepath, disk, response, processor, constructed,
          t_pc, t_proc

\* The state of a request.
procVars == <<image, sam_masks, ocr_lines, pc, segments, ocr_results, layers,
              matched_text_ids, seg_i, matching, result, prev_result, calls>>

\* The argument and the result of one call of a helper function taken alone
\* (fn_out is <<>> until the call has returned, then <<value>>).
fnVars == <<fn_in, fn_out>>

\* The /process route: the handler's position, the upload of the request,
\* the path it was saved under (<<>> before), the files of the upload
\* folder, the response (<<>> until the handler returns), the module global
\* 'processor' (<<>> is None) and the number of ImageProcessor objects
\* constructed so far.
routeVars == <<route_pc, upload, filepath, disk, response, processor, constructed>>

\* Threads inside get_processor: each one's position and what it returned.
threadVars == <<t_pc, t_proc>>

vars == <<procVars, fnVars, routeVars, threadVars>>

(* ------------------------------ bounds -------------------------------- *)

MaxMasks == 2

MaxTexts == 2

MaxCalls == 2

\* Boxes given to _calculate_iou alone: x, y in 0..MaxCoord and width, height
\* in 0..MaxSide.
MaxCoord == 2

MaxSide == 2

\* Bounding boxes given to _infer_segment_type alone: width in
\* 0..MaxClassifyW, height in 0..MaxClassifyH.
MaxClassifyW == 11

MaxClassifyH == 4

\* Text boxes given to _detect_text_alignment alone: x in 0..MaxAlignX and
\* width in 0..MaxAlignWidth, in images 50 and 100 pixels wide.
MaxAlignX == 70

MaxAlignWidth == 2

\* Raw masks of a call of segment_image taken alone.
MaxSegmentMasks == 3

\* Request threads that call get_processor concurrently.
MaxThreads == 3

\* Regions given to detect_font_color alone hold 0..MaxPixelCount pixels of
\* each colour of the palette.
MaxPixelCount == 2

(* ------------------------- program constants -------------------------- *)

MIN_SEGMENT_AREA == 100

(* ------------------------- the request's input ------------------------ *)

Box(x, y, w, h) == [x |-> x, y |-> y, width |-> w, height |-> h]

\* The uploaded image: shape (h, w) and a uniform grey fill.  Its sides are
\* below Config.MAX_IMAGE_SIZE, so segment_image does not resize it.
ImagePool ==
  { [shape |-> <<30, 40>>, fill |-> <<200, 200, 200>>] }

\* What mask_generator.generate(image) can return: mask_data records
\* (bbox as the list [x, y, w, h], area = number of mask pixels).
MaskPool ==
  { [bbox |-> <<0, 0, 40, 20>>,  area |-> 800],
    [bbox |-> <<0, 0, 30, 10>>,  area |-> 300],
    [bbox |-> <<0, 0, 20, 10>>,  area |-> 200],
    [bbox |-> <<0, 0, 15, 10>>,  area |-> 150],
    [bbox |-> <<0, 0, 20, 20>>,  area |-> 400],
    [bbox |-> <<20, 10, 10, 10>>, area |-> 100],
    [bbox |-> <<30, 20, 8, 8>>,  area |-> 60] }

\* What ocr_engine.ocr(image) can return: a line is its corner points
\* (given here by x_min, y_min, x_max, y_max), the text and the confidence
\* (in percent).
LinePool ==
  { [pts |-> <<0, 0, 30, 10>>,  text |-> "A", confidence |-> 90],
    [pts |-> <<0, 0, 20, 10>>,  text |-> "B", confidence |-> 80],
    [pts |-> <<0, 0, 40, 10>>,  text |-> "A", confidence |-> 70],
    [pts |-> <<20, 10, 20, 20>>, text |-> "C", confidence |-> 60] }

SeqsUpTo(S, n) == UNION { [1..k -> S] : k \in 0..n }

(* ------------------------------ helpers ------------------------------- *)

Max(a, b) == IF a >= b THEN a ELSE b

Min(a, b) == IF a <= b THEN a ELSE b

\* Comparison of two non-negative fractions <<num, den>>.
RatGT(a, b) == a[1] * b[2] > b[1] * a[2]

HexDigit(n) ==
  CASE n = 0 -> "0" [] n = 1 -> "1" [] n = 2 -> "2" [] n = 3 -> "3"
    [] n = 4 -> "4" [] n = 5 -> "5" [] n = 6 -> "6" [] n = 7 -> "7"
    [] n = 8 -> "8" [] n = 9 -> "9" [] n = 10 -> "a" [] n = 11 -> "b"
    [] n = 12 -> "c" [] n = 13 -> "d" [] n = 14 -> "e" [] n = 15 -> "f"

\* '#{:02x}{:02x}{:02x}'.format(*rgb)
HexColor(rgb) ==
  "#" \o HexDigit(rgb[1] \div 16) \o HexDigit(rgb[1] % 16)
      \o HexDigit(rgb[2] \div 16) \o HexDigit(rgb[2] % 16)
      \o HexDigit(rgb[3] \div 16) \o HexDigit(rgb[3] % 16)

\* Rows and columns of image[y:y+h, x:x+w] for non-negative x, y.
CropRows(img, bbox) ==
  Max(0, Min(bbox.y + bbox.height, img.shape[1]) - Min(bbox.y, img.shape[1]))

CropCols(img, bbox) ==
  Max(0, Min(bbox.x + bbox.width, img.shape[2]) - Min(bbox.x, img.shape[2]))

\* image[y:y+h, x:x+w]: the number of rows and columns of the crop, its
\* (uniform) pixel value and its pixels as a bag (colour -> number of pixels).
Region(img, bbox) ==
  [rows |-> CropRows(img, bbox),
   cols |-> CropCols(img, bbox),
   fill |-> img.fill,
   pixels |-> [c \in {img.fill} |-> CropRows(img, bbox) * CropCols(img, bbox)]]

RegionSize(region) == region.rows * region.cols * 3

(* --------------------------- SAMService -------------------------------- *)

\* The icon rule tried before the text rule.
_infer_segment_type_iconFirst(aspect_ratio, area, image_shape) ==
  LET total_area == image_shape[1] * image_shape[2]
      area_ratio == <<area, total_area>>
  IN  IF RatGT(area_ratio, <<1, 2>>) THEN "background"
      ELSE IF /\ RatGT(aspect_ratio, <<1, 2>>)
              /\ RatGT(<<2, 1>>, aspect_ratio)
              /\ RatGT(<<1, 10>>, area_ratio) THEN "icon"
      ELSE IF /\ RatGT(aspect_ratio, <<3, 2>>)
              /\ RatGT(<<10, 1>>, aspect_ratio)
              /\ RatGT(<<3, 10>>, area_ratio) THEN "text"
      ELSE "shape"

\* SAMService._infer_segment_type; aspect_ratio is the fraction <<w, h>>.
_infer_segment_type(aspect_ratio, area, image_shape) ==
  LET total_area == image_shape[1] * image_shape[2]
      area_ratio == <<area, total_area>>
  IN  IF RatGT(area_ratio, <<1, 2>>) THEN "background"
      ELSE IF /\ RatGT(aspect_ratio, <<3, 2>>)
              /\ RatGT(<<10, 1>>, aspect_ratio)
              /\ RatGT(<<3, 10>>, area_ratio) THEN "text"
      ELSE IF /\ RatGT(aspect_ratio, <<1, 2>>)
              /\ RatGT(<<2, 1>>, aspect_ratio)
              /\ RatGT(<<1, 10>>, area_ratio) THEN "icon"
      ELSE "shape"

\* A statement of _process_mask's try block raises on this raw mask: a key is
\* missing (KeyError at lines 128-132), or the mask passes the area filter and
\* "x, y, w, h = bbox" cannot unpack the bbox (ValueError at line 139).
MaskRaises(mask_data) ==
  \/ ~({"bbox", "area"} \subseteq DOMAIN mask_data)
  \/ /\ mask_data.area >= MIN_SEGMENT_AREA
     /\ Len(mask_data.bbox) # 4

\* SAMService._process_mask: <<segment>> for one raw mask, or <<>> (None)
\* when the mask is filtered out or an exception was caught.
_process_mask(mask_data, idx, image_shape) ==
  LET bbox == mask_data.bbox
      area == mask_data.area
      x == bbox[1]
      y == bbox[2]
      w == bbox[3]
      h == bbox[4]
      aspect_ratio == IF h > 0 THEN <<w, h>> ELSE <<1, 1>>
  IN  IF MaskRaises(mask_data) THEN <<>>
      ELSE IF area < MIN_SEGMENT_AREA THEN <<>>
      ELSE << [id |-> <<"segment", idx>>,
            mask |-> <<"mask", idx>>,
            bbox |-> Box(x, y, w, h),
            center |-> [x |-> <<2 * x + w, 2>>, y |-> <<2 * y + h, 2>>],
            area |-> area,
            aspect_ratio |-> aspect_ratio,
            type |-> _infer_segment_type(aspect_ratio, area, image_shape)] >>

\* list.sort(key=..., reverse=True) is stable: x is placed behind every
\* element whose area is not smaller.
RECURSIVE InsertByAreaDesc(_, _)
InsertByAreaDesc(s, x) ==
  IF s = <<>> THEN <<x>>
  ELSE IF Head(s).area >= x.area THEN <<Head(s)>> \o InsertByAreaDesc(Tail(s), x)
  ELSE <<x>> \o s

\* The segments are left in the order of the raw masks.
SortByAreaDesc_unsorted(s) == s

RECURSIVE SortByAreaDesc(_)
SortByAreaDesc(s) ==
  IF s = <<>> THEN <<>>
  ELSE InsertByAreaDesc(SortByAreaDesc(SubSeq(s, 1, Len(s) - 1)), s[Len(s)])

\* A raising mask ends the loop.
RECURSIVE ProcessMasks_abortsOnFailure(_, _, _)
ProcessMasks_abortsOnFailure(masks, idx, image_shape) ==
  IF idx > Len(masks) THEN <<>>
  ELSE IF MaskRaises(masks[idx]) THEN <<>>
  ELSE _process_mask(masks[idx], idx - 1, image_shape)
         \o ProcessMasks_abortsOnFailure(masks, idx + 1, image_shape)

RECURSIVE ProcessMasks(_, _, _)
ProcessMasks(masks, idx, image_shape) ==
  IF idx > Len(masks) THEN <<>>
  ELSE LET segment == _process_mask(masks[idx], idx - 1, image_shape)
       IN  segment \o ProcessMasks(masks, idx + 1, image_shape)

\* SAMService.segment_image on the masks the generator returned.
segment_image(img, masks) ==
  SortByAreaDesc(ProcessMasks(masks, 1, img.shape))

(* --------------------------- OCRService -------------------------------- *)

\* OCRService._estimate_font_size: int(height / 1.333) clamped to [8, 72].
_estimate_font_size(height) ==
  Max(8, Min(72, (height * 1000) \div 1333))

\* OCRService._extract_with_paddleocr: one text element per line, its id
\* from the line's index.
_extract_with_paddleocr(lines) ==
  [i \in 1..Len(lines) |->
     LET x_min == lines[i].pts[1]
         y_min == lines[i].pts[2]
         x_max == lines[i].pts[3]
         y_max == lines[i].pts[4]
     IN  [id |-> <<"text", i - 1>>,
          content |-> lines[i].text,
          confidence |-> lines[i].confidence,
          bbox |-> Box(x_min, y_min, x_max - x_min, y_max - y_min),
          center |-> [x |-> (x_min + x_max) \div 2, y |-> (y_min + y_max) \div 2],
          font_size |-> _estimate_font_size(y_max - y_min),
          type |-> "text"]]

\* cv2.cvtColor(region, cv2.COLOR_RGB2GRAY) of one pixel.
Gray(rgb) == (299 * rgb[1] + 587 * rgb[2] + 114 * rgb[3] + 500) \div 1000

\* Number of pixels of a bag that have a colour of S, and the sum of their
\* grey values.
RECURSIVE SumCounts(_, _)
SumCounts(px, S) ==
  IF S = {} THEN 0
  ELSE LET c == CHOOSE c \in S : TRUE
       IN  px[c] + SumCounts(px, S \ {c})

RECURSIVE SumGrays(_, _)
SumGrays(px, S) ==
  IF S = {} THEN 0
  ELSE LET c == CHOOSE c \in S : TRUE
       IN  px[c] * Gray(c) + SumGrays(px, S \ {c})

PixelCount(px) == SumCounts(px, DOMAIN px)

\* cv2.threshold(gray, 0, 255, THRESH_BINARY + THRESH_OTSU): the threshold is
\* the first grey level that maximises the between-class variance
\* n1 * n2 * (mean1 - mean2)^2, and 0 when there are fewer than two levels.
OtsuThreshold(px) ==
  LET present == { c \in DOMAIN px : px[c] > 0 }
      levels == { Gray(c) : c \in present }
      cand == { t \in levels : \E u \in levels : u > t }
      lowOf(t) == { c \in present : Gray(c) <= t }
      sigma(t) ==
        LET n1 == SumCounts(px, lowOf(t))
            n2 == SumCounts(px, present \ lowOf(t))
            s1 == SumGrays(px, lowOf(t))
            s2 == SumGrays(px, present \ lowOf(t))
        IN  <<(s1 * n2 - s2 * n1) * (s1 * n2 - s2 * n1), n1 * n2>>
  IN  IF cand = {} THEN 0
      ELSE CHOOSE t \in cand :
             \A u \in cand :
               /\ ~RatGT(sigma(u), sigma(t))
               /\ u < t => RatGT(sigma(t), sigma(u))

\* region[binary == 0] and region[binary == 255]: binary is 255 where the
\* grey exceeds the threshold.
DarkPixels(px) ==
  [c \in DOMAIN px |-> IF Gray(c) <= OtsuThreshold(px) THEN px[c] ELSE 0]

LightPixels(px) ==
  [c \in DOMAIN px |-> IF Gray(c) > OtsuThreshold(px) THEN px[c] ELSE 0]

\* The r-th smallest value of channel ch in a bag of pixels.
ChannelAtRank(px, ch, r) ==
  LET values == { c[ch] : c \in { d \in DOMAIN px : px[d] > 0 } }
  IN  CHOOSE v \in values :
        /\ SumCounts(px, { c \in DOMAIN px : c[ch] <= v }) >= r
        /\ \A u \in values :
             u < v => SumCounts(px, { c \in DOMAIN px : c[ch] <= u }) < r

\* tuple(map(int, np.median(text_pixels, axis=0)))
MedianColor(px) ==
  LET n == PixelCount(px)
  IN  [ch \in 1..3 |->
         (ChannelAtRank(px, ch, (n + 1) \div 2)
            + ChannelAtRank(px, ch, n \div 2 + 1)) \div 2]

\* Without the retry on the light class.
FontColorOfRegion_noLightRetry(region, fails) ==
  IF RegionSize(region) = 0 THEN <<0, 0, 0>>
  ELSE IF fails THEN <<0, 0, 0>>
  ELSE IF PixelCount(DarkPixels(region.pixels)) > 0
    THEN MedianColor(DarkPixels(region.pixels))
  ELSE <<0, 0, 0>>

\* The body of detect_font_color on the cropped region (lines 237-261);
\* fails says that a step inside the try block raises.
FontColorOfRegion(region, fails) ==
  LET dark == DarkPixels(region.pixels)
      text_pixels == IF PixelCount(dark) = 0 THEN LightPixels(region.pixels) ELSE dark
  IN  IF RegionSize(region) = 0 THEN <<0, 0, 0>>
      ELSE IF fails THEN <<0, 0, 0>>
      ELSE IF PixelCount(text_pixels) > 0 THEN MedianColor(text_pixels)
      ELSE <<0, 0, 0>>

\* OCRService.detect_font_color on a crop of an RGB image, where no step of
\* the try block raises.
detect_font_color(img, bbox) ==
  FontColorOfRegion(Region(img, bbox), FALSE)

(* -------------------------- ImageProcessor ------------------------------ *)

\* The intersection rectangle's sides as _calculate_iou computes them; they
\* are negative where the boxes are apart.
InterWidth(bbox1, bbox2) ==
  Min(bbox1.x + bbox1.width, bbox2.x + bbox2.width) - Max(bbox1.x, bbox2.x)

InterHeight(bbox1, bbox2) ==
  Min(bbox1.y + bbox1.height, bbox2.y + bbox2.height) - Max(bbox1.y, bbox2.y)

\* union_area computed from the first box only.
_calculate_iou_unionOfFirst(bbox1, bbox2) ==
  LET inter_area == InterWidth(bbox1, bbox2) * InterHeight(bbox1, bbox2)
      union_area == 2 * bbox1.width * bbox1.height - inter_area
  IN  IF InterWidth(bbox1, bbox2) < 0 \/ InterHeight(bbox1, bbox2) < 0 THEN <<0, 1>>
      ELSE IF union_area = 0 THEN <<0, 1>>
      ELSE <<inter_area, union_area>>

\* Without the "no overlap" return.
_calculate_iou_noOverlapGuard(bbox1, bbox2) ==
  LET inter_area == InterWidth(bbox1, bbox2) * InterHeight(bbox1, bbox2)
      union_area == bbox1.width * bbox1.height + bbox2.width * bbox2.height - inter_area
  IN  IF union_area = 0 THEN <<0, 1>> ELSE <<inter_area, union_area>>

\* Intersection over the first box's area instead of the union.
_calculate_iou_interOverFirst(bbox1, bbox2) ==
  LET inter_area == InterWidth(bbox1, bbox2) * InterHeight(bbox1, bbox2)
      bbox1_area == bbox1.width * bbox1.height
  IN  IF InterWidth(bbox1, bbox2) < 0 \/ InterHeight(bbox1, bbox2) < 0 THEN <<0, 1>>
      ELSE IF bbox1_area = 0 THEN <<0, 1>>
      ELSE <<inter_area, bbox1_area>>

\* ImageProcessor._calculate_iou: 0.0 is <<0, 1>>.
_calculate_iou(bbox1, bbox2) ==
  LET x1_min == bbox1.x
      y1_min == bbox1.y
      x1_max == bbox1.x + bbox1.width
      y1_max == bbox1.y + bbox1.height
      x2_min == bbox2.x
      y2_min == bbox2.y
      x2_max == bbox2.x + bbox2.width
      y2_max == bbox2.y + bbox2.height
      x_inter_min == Max(x1_min, x2_min)
      y_inter_min == Max(y1_min, y2_min)
      x_inter_max == Min(x1_max, x2_max)
      y_inter_max == Min(y1_max, y2_max)
      inter_area == (x_inter_max - x_inter_min) * (y_inter_max - y_inter_min)
      bbox1_area == bbox1.width * bbox1.height
      bbox2_area == bbox2.width * bbox2.height
      union_area == bbox1_area + bbox2_area - inter_area
  IN  IF x_inter_max < x_inter_min \/ y_inter_max < y_inter_min THEN <<0, 1>>
      ELSE IF union_area = 0 THEN <<0, 1>>
      ELSE <<inter_area, union_area>>

\* center_inside of _find_matching_text.
CenterInside(seg_bbox, text_center) ==
  /\ seg_bbox.x <= text_center.x
  /\ text_center.x <= seg_bbox.x + seg_bbox.width
  /\ seg_bbox.y <= text_center.y
  /\ text_center.y <= seg_bbox.y + seg_bbox.height

\* "if text['id'] in matched_ids: continue"
AlreadyMatched_never(text, matched_ids) == FALSE

AlreadyMatched(text, matched_ids) == text.id \in matched_ids

\* "if iou > 0.5 or (center_inside and iou > 0.3)"
Accepts_anyCenterInside(iou, center_inside) ==
  RatGT(iou, <<1, 2>>) \/ center_inside

Accepts(iou, center_inside) ==
  RatGT(iou, <<1, 2>>) \/ (center_inside /\ RatGT(iou, <<3, 10>>))

\* "if iou > best_iou"
Better_orEqual(iou, best_iou) == ~RatGT(best_iou, iou)

Better(iou, best_iou) == RatGT(iou, best_iou)

\* A loop that lets a text whose center is inside the segment match on
\* containment alone, whatever its IoU.
RECURSIVE FindLoop_containmentAlone(_, _, _, _, _, _)
FindLoop_containmentAlone(segment, texts, matched_ids, k, best_match, best_iou) ==
  IF k > Len(texts) THEN best_match
  ELSE LET text == texts[k]
           iou == _calculate_iou(segment.bbox, text.bbox)
           center_inside == CenterInside(segment.bbox, text.center)
       IN  IF AlreadyMatched(text, matched_ids)
             THEN FindLoop_containmentAlone(segment, texts, matched_ids, k + 1,
                                            best_match, best_iou)
           ELSE IF /\ RatGT(iou, <<1, 2>>) \/ center_inside
                   /\ best_match = <<>> \/ RatGT(iou, best_iou)
             THEN FindLoop_containmentAlone(segment, texts, matched_ids, k + 1,
                                            <<text>>, iou)
           ELSE FindLoop_containmentAlone(segment, texts, matched_ids, k + 1,
                                          best_match, best_iou)

\* The loop of _find_matching_text from text k on, with the loop's
\* best_match (<<>> for None, <<text>> for a text element) and best_iou.
RECURSIVE FindLoop(_, _, _, _, _, _)
FindLoop(segment, texts, matched_ids, k, best_match, best_iou) ==
  IF k > Len(texts) THEN best_match
  ELSE LET text == texts[k]
           iou == _calculate_iou(segment.bbox, text.bbox)
           center_inside == CenterInside(segment.bbox, text.center)
       IN  IF AlreadyMatched(text, matched_ids)
             THEN FindLoop(segment, texts, matched_ids, k + 1, best_match, best_iou)
           ELSE IF Accepts(iou, center_inside) /\ Better(iou, best_iou)
             THEN FindLoop(segment, texts, matched_ids, k + 1, <<text>>, iou)
           ELSE FindLoop(segment, texts, matched_ids, k + 1, best_match, best_iou)

\* ImageProcessor._find_matching_text
_find_matching_text(segment, texts, matched_ids) ==
  FindLoop(segment, texts, matched_ids, 1, <<>>, <<0, 1>>)

\* ImageProcessor._get_text_color
_get_text_color(img, bbox) == HexColor(detect_font_color(img, bbox))

\* ColorThief(...).get_color(quality=1) of a uniform region: the 5-bit
\* colour bin's centre per channel; near-white pixels are discarded and an
\* empty pixel list raises.
ColorThiefRaises(region) ==
  region.fill[1] > 250 /\ region.fill[2] > 250 /\ region.fill[3] > 250

ColorThiefColor(region) ==
  [c \in 1..3 |-> Min(255, ((2 * (region.fill[c] \div 8) + 1) * 8) \div 2)]

\* Without the check of region.size.
_get_dominant_color_noSizeCheck(img, bbox) ==
  LET region == Region(img, bbox)
  IN  IF ColorThiefRaises(region) THEN "#000000"
      ELSE HexColor(ColorThiefColor(region))

\* ImageProcessor._get_dominant_color
_get_dominant_color(img, bbox) ==
  LET region == Region(img, bbox)
  IN  IF RegionSize(region) = 0 THEN "#000000"
      ELSE IF ColorThiefRaises(region) THEN "#000000"
      ELSE HexColor(ColorThiefColor(region))

\* Both comparisons inclusive.
_detect_text_alignment_inclusive(bbox, image_width) ==
  LET center_x == <<2 * bbox.x + bbox.width, 2>>
      left_threshold == <<image_width * 33, 100>>
      right_threshold == <<image_width * 67, 100>>
  IN  IF ~RatGT(center_x, left_threshold) THEN "left"
      ELSE IF ~RatGT(right_threshold, center_x) THEN "right"
      ELSE "center"

\* ImageProcessor._detect_text_alignment: center_x = x + width / 2 is the
\* fraction <<2x + width, 2>>, the thresholds are 0.33 and 0.67 of the width.
_detect_text_alignment(bbox, image_width) ==
  LET center_x == <<2 * bbox.x + bbox.width, 2>>
      left_threshold == <<image_width * 33, 100>>
      right_threshold == <<image_width * 67, 100>>
  IN  IF RatGT(left_threshold, center_x) THEN "left"
      ELSE IF RatGT(center_x, right_threshold) THEN "right"
      ELSE "center"

\* The 'text' substructure built for a text element (lines 107-116, 139-148).
TextStyle(text, img) ==
  [content |-> text.content,
   font_size |-> text.font_size,
   font_family |-> "Arial",
   color |-> _get_text_color(img, text.bbox),
   bold |-> FALSE,
   italic |-> FALSE,
   underline |-> FALSE,
   align |-> _detect_text_alignment(text.bbox, img.shape[2])]

\* The base layer of a segment (lines 88-98).
BaseLayer(segment) ==
  [id |-> segment.id,
   type |-> segment.type,
   bbox |-> segment.bbox,
   center |-> segment.center,
   area |-> segment.area,
   mask |-> segment.mask,
   editable |-> TRUE,
   locked |-> FALSE,
   visible |-> TRUE]

\* The "if matching_text:" branch (lines 104-117).
MatchedLayer_keepsStyle(layer, segment, matching_text, img) ==
  [layer EXCEPT !.type = "text"]
    @@ [content |-> matching_text.content,
        text |-> TextStyle(matching_text, img),
        style |-> [fill_color |-> _get_dominant_color(img, segment.bbox),
                   stroke_color |-> "None",
                   stroke_width |-> 0],
        confidence |-> matching_text.confidence]

MatchedLayer_keepsType(layer, segment, matching_text, img) ==
  layer
    @@ [content |-> matching_text.content,
        text |-> TextStyle(matching_text, img),
        confidence |-> matching_text.confidence]

\* Colour and alignment are computed from the segment's bbox.
MatchedLayer_styleFromSegment(layer, segment, matching_text, img) ==
  [layer EXCEPT !.type = "text"]
    @@ [content |-> matching_text.content,
        text |-> TextStyle([matching_text EXCEPT !.bbox = segment.bbox], img),
        confidence |-> matching_text.confidence]

MatchedLayer(layer, segment, matching_text, img) ==
  [layer EXCEPT !.type = "text"]
    @@ [content |-> matching_text.content,
        text |-> TextStyle(matching_text, img),
        confidence |-> matching_text.confidence]

\* The fill colour is not sampled while the layer is built.
UnmatchedLayer_colorLater(layer, segment, img) ==
  layer @@ [content |-> "None"]

\* The "else" branch (lines 120-126).
UnmatchedLayer(layer, segment, img) ==
  layer
    @@ [content |-> "None",
        style |-> [fill_color |-> _get_dominant_color(img, segment.bbox),
                   stroke_color |-> "None",
                   stroke_width |-> 0]]

\* The layer of an unmatched text element (lines 133-153).
TextOnlyLayer(text, img) ==
  [id |-> text.id,
   type |-> "text",
   bbox |-> text.bbox,
   center |-> text.center,
   content |-> text.content,
   text |-> TextStyle(text, img),
   confidence |-> text.confidence,
   editable |-> TRUE,
   locked |-> FALSE,
   visible |-> TRUE]

\* "matched_text_ids = set()" (line 84); prev is what an earlier call left.
NewMatchedTextIds_leak(prev) == prev

NewMatchedTextIds(prev) == {}

\* "matched_text_ids.add(matching_text['id'])" (line 118)
AddMatched_forgets(ids, matching_text) == ids

AddMatched(ids, matching_text) == ids \cup {matching_text.id}

\* "if text['id'] not in matched_text_ids" (line 132)
IsUnmatched_always(text, ids) == TRUE

IsUnmatched(text, ids) == text.id \notin ids

\* The loop over ocr_results that appends the unmatched texts (131-154).
RECURSIVE UnmatchedTextLayers(_, _, _, _)
UnmatchedTextLayers(texts, ids, img, k) ==
  IF k > Len(texts) THEN <<>>
  ELSE (IF IsUnmatched(texts[k], ids) THEN <<TextOnlyLayer(texts[k], img)>> ELSE <<>>)
         \o UnmatchedTextLayers(texts, ids, img, k + 1)

\* x.get('area', 0)
GetArea(x) == IF "area" \in DOMAIN x THEN x.area ELSE 0

\* The sort key (lines 157-160).
SortKey_areaOnly(x) == <<1, -GetArea(x)>>

SortKey(x) == <<IF x.type = "background" THEN 0 ELSE 1, -GetArea(x)>>

\* Python's tuple comparison a <= b.
KeyLE(a, b) == a[1] < b[1] \/ (a[1] = b[1] /\ a[2] <= b[2])

\* list.sort is stable: x goes behind every element whose key is not greater.
RECURSIVE InsertLayer_unstable(_, _)
InsertLayer_unstable(s, x) ==
  IF s = <<>> THEN <<x>>
  ELSE IF ~KeyLE(SortKey(x), SortKey(Head(s)))
    THEN <<Head(s)>> \o InsertLayer_unstable(Tail(s), x)
  ELSE <<x>> \o s

RECURSIVE InsertLayer(_, _)
InsertLayer(s, x) ==
  IF s = <<>> THEN <<x>>
  ELSE IF KeyLE(SortKey(Head(s)), SortKey(x))
    THEN <<Head(s)>> \o InsertLayer(Tail(s), x)
  ELSE <<x>> \o s

RECURSIVE SortLayers(_)
SortLayers(s) ==
  IF s = <<>> THEN <<>>
  ELSE InsertLayer(SortLayers(SubSeq(s, 1, Len(s) - 1)), s[Len(s)])

(* --------------------------- the state machine -------------------------- *)

\* No HTTP request is being handled and no thread is inside get_processor.
NoRoute ==
  /\ route_pc = "none"
  /\ upload = <<>>
  /\ filepath = <<>>
  /\ disk = {}
  /\ response = <<>>
  /\ processor = <<>>
  /\ constructed = 0
  /\ t_pc = <<>>
  /\ t_proc = <<>>

\* image, sam_masks and ocr_lines are the request: the uploaded image and what
\* the SAM mask generator and the OCR engine return for it.  matching records
\* the value of matching_text in each iteration of the segment loop.
Init ==
  /\ image \in ImagePool
  /\ sam_masks \in SeqsUpTo(MaskPool, MaxMasks)
  /\ ocr_lines \in SeqsUpTo(LinePool, MaxTexts)
  /\ pc = "sam"
  /\ segments = <<>>
  /\ ocr_results = <<>>
  /\ layers = <<>>
  /\ matched_text_ids = {}
  /\ seg_i = 1
  /\ matching = <<>>
  /\ result = <<>>
  /\ prev_result = <<>>
  /\ calls = 1
  /\ fn_in = <<>>
  /\ fn_out = <<>>
  /\ NoRoute

\* process_image, step 1: self.sam_service.segment_image(image)
SegmentImage ==
  /\ pc = "sam"
  /\ segments' = segment_image(image, sam_masks)
  /\ pc' = "ocr"
  /\ UNCHANGED <<image, sam_masks, ocr_lines, ocr_results, layers,
                 matched_text_ids, seg_i, matching, result, prev_result, calls>>
  /\ UNCHANGED <<fnVars, routeVars, threadVars>>

\* process_image, step 3: self.ocr_service.extract_text(image)
ExtractText ==
  /\ pc = "ocr"
  /\ ocr_results' = _extract_with_paddleocr(ocr_lines)
  /\ pc' = "match"
  /\ UNCHANGED <<image, sam_masks, ocr_lines, segments, layers,
                 matched_text_ids, seg_i, matching, result, prev_result, calls>>
  /\ UNCHANGED <<fnVars, routeVars, threadVars>>

\* _match_segments_with_text is entered: its locals are initialised.
MatchBegin ==
  /\ pc = "match"
  /\ layers' = <<>>
  /\ matched_text_ids' = NewMatchedTextIds(matched_text_ids)
  /\ seg_i' = 1
  /\ matching' = <<>>
  /\ pc' = "segments"
  /\ UNCHANGED <<image, sam_masks, ocr_lines, segments, ocr_results,
                 result, prev_result, calls>>
  /\ UNCHANGED <<fnVars, routeVars, threadVars>>

\* The iteration writes 'text' into the segment's own 'type'.
MatchSegment_retypesSegment ==
  /\ pc = "segments"
  /\ seg_i <= Len(segments)
  /\ LET segment == segments[seg_i]
         layer == BaseLayer(segment)
         matching_text == _find_matching_text(segment, ocr_results, matched_text_ids)
     IN  /\ matching' = Append(matching, matching_text)
         /\ IF matching_text # <<>>
              THEN /\ layers' = Append(layers,
                                  MatchedLayer(layer, segment, matching_text[1], image))
                   /\ matched_text_ids' = AddMatched(matched_text_ids, matching_text[1])
                   /\ segments' = [segments EXCEPT ![seg_i].type = "text"]
              ELSE /\ layers' = Append(layers, UnmatchedLayer(layer, segment, image))
                   /\ UNCHANGED <<matched_text_ids, segments>>
  /\ seg_i' = seg_i + 1
  /\ UNCHANGED <<image, sam_masks, ocr_lines, pc, ocr_results,
                 result, prev_result, calls>>
  /\ UNCHANGED <<fnVars, routeVars, threadVars>>

\* One iteration of "for segment in segments" (lines 87-128).
MatchSegment ==
  /\ pc = "segments"
  /\ seg_i <= Len(segments)
  /\ LET segment == segments[seg_i]
         layer == BaseLayer(segment)
         matching_text == _find_matching_text(segment, ocr_results, matched_text_ids)
     IN  /\ matching' = Append(matching, matching_text)
         /\ IF matching_text # <<>>
              THEN /\ layers' = Append(layers,
                                  MatchedLayer(layer, segment, matching_text[1], image))
                   /\ matched_text_ids' = AddMatched(matched_text_ids, matching_text[1])
              ELSE /\ layers' = Append(layers, UnmatchedLayer(layer, segment, image))
                   /\ UNCHANGED matched_text_ids
  /\ seg_i' = seg_i + 1
  /\ UNCHANGED <<image, sam_masks, ocr_lines, pc, segments, ocr_results,
                 result, prev_result, calls>>
  /\ UNCHANGED <<fnVars, routeVars, threadVars>>

\* The segment loop is over: the unmatched texts are appended, the layers
\* are sorted and returned (lines 130-162).
MatchFinish ==
  /\ pc = "segments"
  /\ seg_i > Len(segments)
  /\ layers' = SortLayers(layers \o UnmatchedTextLayers(ocr_results, matched_text_ids, image, 1))
  /\ result' = layers'
  /\ pc' = "done"
  /\ UNCHANGED <<image, sam_masks, ocr_lines, segments, ocr_results,
                 matched_text_ids, seg_i, matching, prev_result, calls>>
  /\ UNCHANGED <<fnVars, routeVars, threadVars>>

\* The same upload is processed again by the same ImageProcessor instance;
\* prev_result keeps what the call before returned.
NextRequest ==
  /\ pc = "done"
  /\ calls < MaxCalls
  /\ prev_result' = result
  /\ calls' = calls + 1
  /\ pc' = "sam"
  /\ segments' = <<>>
  /\ ocr_results' = <<>>
  /\ layers' = <<>>
  /\ seg_i' = 1
  /\ matching' = <<>>
  /\ result' = <<>>
  /\ UNCHANGED <<image, sam_masks, ocr_lines, matched_text_ids>>
  /\ UNCHANGED <<fnVars, routeVars, threadVars>>

Next ==
  \/ SegmentImage
  \/ ExtractText
  \/ MatchBegin
  \/ MatchSegment
  \/ MatchFinish
  \/ NextRequest

Spec == Init /\ [][Next]_vars

(* ------------------- requests with degenerate regions ------------------- *)

\* A tall image, and a white one on which ColorThief raises.
DegenerateImagePool ==
  { [shape |-> <<120, 40>>, fill |-> <<200, 200, 200>>],
    [shape |-> <<30, 40>>,  fill |-> <<255, 255, 255>>] }

\* Raw masks: a one-pixel-wide column (its bbox has width 0, so its crop is
\* empty), two ordinary masks, a mask whose bbox cannot be unpacked and a
\* mask without its 'area' key.
DegenerateMaskPool ==
  { [bbox |-> <<5, 0, 0, 110>>,  area |-> 111],
    [bbox |-> <<20, 10, 10, 10>>, area |-> 100],
    [bbox |-> <<0, 0, 20, 20>>,  area |-> 400],
    [bbox |-> <<0, 0, 30>>,      area |-> 300],
    [bbox |-> <<0, 0, 10, 20>>] }

\* OCR lines: an ordinary one and one of width 0.
DegenerateLinePool ==
  { [pts |-> <<0, 0, 20, 10>>,   text |-> "B", confidence |-> 80],
    [pts |-> <<20, 10, 20, 20>>, text |-> "C", confidence |-> 60] }

InitDegenerate ==
  /\ image \in DegenerateImagePool
  /\ sam_masks \in SeqsUpTo(DegenerateMaskPool, MaxMasks)
  /\ ocr_lines \in SeqsUpTo(DegenerateLinePool, MaxTexts)
  /\ pc = "sam"
  /\ segments = <<>>
  /\ ocr_results = <<>>
  /\ layers = <<>>
  /\ matched_text_ids = {}
  /\ seg_i = 1
  /\ matching = <<>>
  /\ result = <<>>
  /\ prev_result = <<>>
  /\ calls = 1
  /\ fn_in = <<>>
  /\ fn_out = <<>>
  /\ NoRoute

SpecDegenerate == InitDegenerate /\ [][Next]_vars

(* ----------------------- segment_image taken alone ---------------------- *)

\* A request for which the mask generator returns up to MaxSegmentMasks raw
\* masks; only the segmentation step is followed.
InitSegment ==
  /\ image \in ImagePool
  /\ sam_masks \in SeqsUpTo(MaskPool, MaxSegmentMasks)
  /\ ocr_lines = <<>>
  /\ pc = "sam"
  /\ segments = <<>>
  /\ ocr_results = <<>>
  /\ layers = <<>>
  /\ matched_text_ids = {}
  /\ seg_i = 1
  /\ matching = <<>>
  /\ result = <<>>
  /\ prev_result = <<>>
  /\ calls = 1
  /\ fn_in = <<>>
  /\ fn_out = <<>>
  /\ NoRoute

SpecSegment == InitSegment /\ [][SegmentImage]_vars

(* --------------------------- the /process route ------------------------- *)

\* Config.ALLOWED_EXTENSIONS; a file name is the sequence of its characters.
ALLOWED_EXTENSIONS ==
  { <<"p", "n", "g">>, <<"j", "p", "g">>, <<"j", "p", "e", "g">>,
    <<"w", "e", "b", "p">>, <<"s", "v", "g">> }

\* str.lower() on the characters that occur in the file names of UploadPool.
Lower(c) ==
  CASE c = "P" -> "p" [] c = "N" -> "n" [] c = "G" -> "g" [] OTHER -> c

HasDot(filename) == \E i \in 1..Len(filename) : filename[i] = "."

\* filename.rsplit('.', 1)[1].lower()
Extension(filename) ==
  LET dot == CHOOSE i \in 1..Len(filename) :
               /\ filename[i] = "."
               /\ \A j \in (i + 1)..Len(filename) : filename[j] # "."
  IN  [i \in 1..(Len(filename) - dot) |-> Lower(filename[dot + i])]

\* helpers.allowed_file
allowed_file(filename) ==
  HasDot(filename) /\ Extension(filename) \in ALLOWED_EXTENSIONS

\* What a client can post: no 'image' part (<<>>), or an 'image' part with
\* a file name and bytes that cv2.imread can decode or not.
UploadPool ==
  { <<>>,
    << [filename |-> <<>>, decodes |-> TRUE] >>,
    << [filename |-> <<"a">>, decodes |-> TRUE] >>,
    << [filename |-> <<"a", ".", "t", "x", "t">>, decodes |-> TRUE] >>,
    << [filename |-> <<"a", ".", "P", "N", "G">>, decodes |-> TRUE] >>,
    << [filename |-> <<"a", ".", "p", "n", "g">>, decodes |-> FALSE] >>,
    << [filename |-> <<"a", ".", "p", "n", "g">>, decodes |-> TRUE] >> }

\* Every error is answered with status 200.
ErrorResponse_alwaysOk(status, message) ==
  [status |-> 200, body |-> [error |-> message]]

\* jsonify({'error': ...}), status
ErrorResponse(status, message) ==
  [status |-> status, body |-> [error |-> message]]

\* jsonify({'success': True, 'data': result}), 200, with process_image's
\* result dictionary (its layout and color_palette entries are left out).
SuccessResponse(res, segs, texts) ==
  [status |-> 200,
   body |-> [success |-> TRUE,
             data |-> [layers |-> res,
                       total_segments |-> Len(segs),
                       total_text_elements |-> Len(texts)]]]

\* The service has started: the upload folder is empty, the global processor
\* is None and the first request arrives.  image, sam_masks and ocr_lines are
\* what load_image, the mask generator and the OCR engine return for the
\* upload when they return.
InitRoute ==
  /\ image \in DegenerateImagePool
  /\ sam_masks \in SeqsUpTo(DegenerateMaskPool, MaxMasks)
  /\ ocr_lines \in SeqsUpTo(DegenerateLinePool, 1)
  /\ pc = "idle"
  /\ segments = <<>>
  /\ ocr_results = <<>>
  /\ layers = <<>>
  /\ matched_text_ids = {}
  /\ seg_i = 1
  /\ matching = <<>>
  /\ result = <<>>
  /\ prev_result = <<>>
  /\ calls = 1
  /\ fn_in = <<>>
  /\ fn_out = <<>>
  /\ route_pc = "validate"
  /\ upload \in UploadPool
  /\ filepath = <<>>
  /\ disk = {}
  /\ response = <<>>
  /\ processor = <<>>
  /\ constructed = 0
  /\ t_pc = <<>>
  /\ t_proc = <<>>

\* Lines 35-44: the request is rejected before anything is saved.
RejectUpload ==
  /\ route_pc = "validate"
  /\ \/ /\ upload = <<>>
        /\ response' = << ErrorResponse(400, "No image file provided") >>
     \/ /\ upload # <<>>
        /\ upload[1].filename = <<>>
        /\ response' = << ErrorResponse(400, "Empty filename") >>
     \/ /\ upload # <<>>
        /\ upload[1].filename # <<>>
        /\ ~allowed_file(upload[1].filename)
        /\ response' = << ErrorResponse(400, "Invalid file type") >>
  /\ route_pc' = "responded"
  /\ UNCHANGED <<procVars, fnVars, upload, filepath, disk, processor,
                 constructed, threadVars>>

\* Line 47, helpers.save_upload_file: the upload is written under a fresh
\* name (uuid4) in the upload folder.
SaveUploadFile ==
  /\ route_pc = "validate"
  /\ upload # <<>>
  /\ upload[1].filename # <<>>
  /\ allowed_file(upload[1].filename)
  /\ filepath' = << <<"upload", calls>> >>
  /\ disk' = disk \cup { <<"upload", calls>> }
  /\ route_pc' = "load"
  /\ UNCHANGED <<procVars, fnVars, upload, response, processor, constructed,
                 threadVars>>

\* Lines 50-53: load_image returned None.
LoadImageFails ==
  /\ route_pc = "load"
  /\ ~upload[1].decodes
  /\ response' = << ErrorResponse(500, "Failed to load image") >>
  /\ route_pc' = "responded"
  /\ UNCHANGED <<procVars, fnVars, upload, filepath, disk, processor,
                 constructed, threadVars>>

\* Lines 50-58: the image is loaded, get_processor() returns the processor,
\* constructing it when the global is None, and process_image is entered.
EnterProcessImage ==
  /\ route_pc = "load"
  /\ upload[1].decodes
  /\ IF processor = <<>>
       THEN /\ processor' = << constructed + 1 >>
            /\ constructed' = constructed + 1
       ELSE UNCHANGED <<processor, constructed>>
  /\ route_pc' = "process"
  /\ pc' = "sam"
  /\ UNCHANGED <<image, sam_masks, ocr_lines, segments, ocr_results, layers,
                 matched_text_ids, seg_i, matching, result, prev_result, calls>>
  /\ UNCHANGED <<fnVars, upload, filepath, disk, response, threadVars>>

\* process_image, step 1: the mask generator raises and segment_image
\* re-raises (sam_service.py 112-113).
SegmentImageRaises ==
  /\ route_pc = "process"
  /\ pc = "sam"
  /\ pc' = "raised_sam"
  /\ UNCHANGED <<image, sam_masks, ocr_lines, segments, ocr_results, layers,
                 matched_text_ids, seg_i, matching, result, prev_result, calls>>
  /\ UNCHANGED <<fnVars, routeVars, threadVars>>

\* process_image, step 2: analyze_layout raises (pix2struct_service.py
\* 75-76), after the segmentation has returned.
AnalyzeLayoutRaises ==
  /\ route_pc = "process"
  /\ pc = "ocr"
  /\ pc' = "raised_layout"
  /\ UNCHANGED <<image, sam_masks, ocr_lines, segments, ocr_results, layers,
                 matched_text_ids, seg_i, matching, result, prev_result, calls>>
  /\ UNCHANGED <<fnVars, routeVars, threadVars>>

\* process_image, step 3: extract_text raises (ocr_service.py 62-63).
ExtractTextRaises ==
  /\ route_pc = "process"
  /\ pc = "ocr"
  /\ pc' = "raised_ocr"
  /\ UNCHANGED <<image, sam_masks, ocr_lines, segments, ocr_results, layers,
                 matched_text_ids, seg_i, matching, result, prev_result, calls>>
  /\ UNCHANGED <<fnVars, routeVars, threadVars>>

Raised == pc \in {"raised_sam", "raised_layout", "raised_ocr"}

\* str(e) of the exception that left process_image.
RaisedMessage ==
  CASE pc = "raised_sam" -> "SAM segmentation failed"
    [] pc = "raised_layout" -> "Layout analysis failed"
    [] pc = "raised_ocr" -> "Text extraction failed"

\* Lines 71-73: the exception reaches the handler's except clause.
RespondError ==
  /\ route_pc = "process"
  /\ Raised
  /\ response' = << ErrorResponse(500, RaisedMessage) >>
  /\ route_pc' = "responded"
  /\ UNCHANGED <<procVars, fnVars, upload, filepath, disk, processor,
                 constructed, threadVars>>

\* Lines 60-69: process_image has returned; os.remove(filepath) removes the
\* file, or raises and is ignored; the result is returned.
CleanUpAndRespond ==
  /\ route_pc = "process"
  /\ pc = "done"
  /\ \E removed \in BOOLEAN :
       disk' = IF removed THEN disk \ { filepath[1] } ELSE disk
  /\ response' = << SuccessResponse(result, segments, ocr_results) >>
  /\ route_pc' = "responded"
  /\ UNCHANGED <<procVars, fnVars, upload, filepath, processor, constructed,
                 threadVars>>

\* The next request arrives at the same process.
NextUpload ==
  /\ route_pc = "responded"
  /\ calls < MaxCalls
  /\ upload' \in UploadPool
  /\ calls' = calls + 1
  /\ route_pc' = "validate"
  /\ filepath' = <<>>
  /\ response' = <<>>
  /\ pc' = "idle"
  /\ segments' = <<>>
  /\ ocr_results' = <<>>
  /\ layers' = <<>>
  /\ matched_text_ids' = {}
  /\ seg_i' = 1
  /\ matching' = <<>>
  /\ result' = <<>>
  /\ UNCHANGED <<image, sam_masks, ocr_lines, prev_result>>
  /\ UNCHANGED <<fnVars, disk, processor, constructed, threadVars>>

NextRoute ==
  \/ RejectUpload
  \/ SaveUploadFile
  \/ LoadImageFails
  \/ EnterProcessImage
  \/ SegmentImage
  \/ SegmentImageRaises
  \/ AnalyzeLayoutRaises
  \/ ExtractText
  \/ ExtractTextRaises
  \/ MatchBegin
  \/ MatchSegment
  \/ MatchFinish
  \/ RespondError
  \/ CleanUpAndRespond
  \/ NextUpload

SpecRoute == InitRoute /\ [][NextRoute]_vars

(* ------------------ get_processor called concurrently ------------------- *)

\* The threads of the server (app.run serves every request in its own
\* thread).
Threads == 1..MaxThreads

\* The service has started, the global processor is None and every thread is
\* about to call get_processor.
InitSingleton ==
  /\ image \in ImagePool
  /\ sam_masks = <<>>
  /\ ocr_lines = <<>>
  /\ pc = "idle"
  /\ segments = <<>>
  /\ ocr_results = <<>>
  /\ layers = <<>>
  /\ matched_text_ids = {}
  /\ seg_i = 1
  /\ matching = <<>>
  /\ result = <<>>
  /\ prev_result = <<>>
  /\ calls = 1
  /\ fn_in = <<>>
  /\ fn_out = <<>>
  /\ route_pc = "none"
  /\ upload = <<>>
  /\ filepath = <<>>
  /\ disk = {}
  /\ response = <<>>
  /\ processor = <<>>
  /\ constructed = 0
  /\ t_pc = [t \in Threads |-> "call"]
  /\ t_proc = [t \in Threads |-> <<>>]

\* Line 19: "if processor is None".
CheckProcessor(t) ==
  /\ t_pc[t] = "call"
  /\ t_pc' = [t_pc EXCEPT ![t] = IF processor = <<>> THEN "construct" ELSE "return"]
  /\ UNCHANGED <<procVars, fnVars, routeVars, t_proc>>

\* Line 20: ImageProcessor() has loaded its models and the new object is
\* stored in the global.
ConstructProcessor(t) ==
  /\ t_pc[t] = "construct"
  /\ constructed' = constructed + 1
  /\ processor' = << constructed + 1 >>
  /\ t_pc' = [t_pc EXCEPT ![t] = "return"]
  /\ UNCHANGED <<procVars, fnVars, route_pc, upload, filepath, disk, response,
                 t_proc>>

\* Line 21: "return processor".
ReturnProcessor(t) ==
  /\ t_pc[t] = "return"
  /\ t_proc' = [t_proc EXCEPT ![t] = processor]
  /\ t_pc' = [t_pc EXCEPT ![t] = "returned"]
  /\ UNCHANGED <<procVars, fnVars, routeVars>>

NextSingleton ==
  \E t \in Threads :
    \/ CheckProcessor(t)
    \/ ConstructProcessor(t)
    \/ ReturnProcessor(t)

SpecSingleton == InitSingleton /\ [][NextSingleton]_vars

(* ---------------------- helper functions taken alone -------------------- *)

\* No request is being processed.
NoRequest ==
  /\ image \in ImagePool
  /\ sam_masks = <<>>
  /\ ocr_lines = <<>>
  /\ pc = "idle"
  /\ segments = <<>>
  /\ ocr_results = <<>>
  /\ layers = <<>>
  /\ matched_text_ids = {}
  /\ seg_i = 1
  /\ matching = <<>>
  /\ result = <<>>
  /\ prev_result = <<>>
  /\ calls = 1
  /\ NoRoute

\* Boxes with non-negative width and height.
BoxPool ==
  { Box(x, y, w, h) : x \in 0..MaxCoord, y \in 0..MaxCoord,
                      w \in 0..MaxSide, h \in 0..MaxSide }

InitIou ==
  /\ NoRequest
  /\ fn_in \in BoxPool \X BoxPool
  /\ fn_out = <<>>

\* _calculate_iou is called on the two boxes, in both argument orders.
CalculateIou ==
  /\ fn_out = <<>>
  /\ fn_out' = << [ab |-> _calculate_iou(fn_in[1], fn_in[2]),
                   ba |-> _calculate_iou(fn_in[2], fn_in[1])] >>
  /\ UNCHANGED <<procVars, fn_in, routeVars, threadVars>>

SpecIou == InitIou /\ [][CalculateIou]_vars

\* Mask areas in an image of 10 x 10 pixels: area ratios 0.05 to 0.51.
ClassifyAreas == {5, 9, 10, 20, 29, 30, 40, 50, 51}

InitClassify ==
  /\ NoRequest
  /\ fn_in \in [w : 0..MaxClassifyW, h : 0..MaxClassifyH,
                area : ClassifyAreas, image_shape : {<<10, 10>>}]
  /\ fn_out = <<>>

\* _process_mask computes the aspect ratio of the bbox (line 146) and calls
\* _infer_segment_type (line 147).
InferSegmentType ==
  /\ fn_out = <<>>
  /\ LET aspect_ratio == IF fn_in.h > 0 THEN <<fn_in.w, fn_in.h>> ELSE <<1, 1>>
     IN  fn_out' = << _infer_segment_type(aspect_ratio, fn_in.area, fn_in.image_shape) >>
  /\ UNCHANGED <<procVars, fn_in, routeVars, threadVars>>

SpecClassify == InitClassify /\ [][InferSegmentType]_vars

InitAlign ==
  /\ NoRequest
  /\ fn_in \in [bbox : { Box(x, 0, w, 10) : x \in 0..MaxAlignX, w \in 0..MaxAlignWidth },
                image_width : {50, 100}]
  /\ fn_out = <<>>

\* self._detect_text_alignment(bbox, image.shape[1])
DetectTextAlignment ==
  /\ fn_out = <<>>
  /\ fn_out' = << _detect_text_alignment(fn_in.bbox, fn_in.image_width) >>
  /\ UNCHANGED <<procVars, fn_in, routeVars, threadVars>>

SpecAlign == InitAlign /\ [][DetectTextAlignment]_vars

\* Pixel colours of the regions given to detect_font_color alone; their grey
\* values are 0, 40, 89 and 200.
Palette == { <<0, 0, 0>>, <<40, 40, 40>>, <<250, 20, 20>>, <<200, 200, 200>> }

InitFontColor ==
  /\ NoRequest
  /\ \E px \in [Palette -> 0..MaxPixelCount] :
       \E fails \in BOOLEAN :
         fn_in = [region |-> [rows |-> IF PixelCount(px) > 0 THEN 1 ELSE 0,
                              cols |-> PixelCount(px),
                              pixels |-> px],
                  fails |-> fails]
  /\ fn_out = <<>>

\* detect_font_color has cropped the region and runs the rest of its body.
DetectFontColor ==
  /\ fn_out = <<>>
  /\ fn_out' = << FontColorOfRegion(fn_in.region, fn_in.fails) >>
  /\ UNCHANGED <<procVars, fn_in, routeVars, threadVars>>

SpecFontColor == InitFontColor /\ [][DetectFontColor]_vars

(* ------------- the design server's /remove-bg and /segment -------------- *)

\* The image/ prefix, as a sequence of characters.
ImagePrefix == <<"i", "m", "a", "g", "e", "/">>

\* str.startswith
StartsWith(s, prefix) ==
  /\ Len(s) >= Len(prefix)
  /\ SubSeq(s, 1, Len(prefix)) = prefix

\* file.content_type of the uploads: None (<<>> stands for it and for the
\* empty string, both falsy), text/plain, image (without the slash) and
\* image/png.
ContentTypePool ==
  { <<>>,
    <<"t", "e", "x", "t", "/", "p", "l", "a", "i", "n">>,
    <<"i", "m", "a", "g", "e">>,
    <<"i", "m", "a", "g", "e", "/", "p", "n", "g">> }

\* 10 * 1024 * 1024
MaxUploadBytes == 10485760

MinUploadBytes == 100

MaxDimension == 4096

\* len(contents) and the sides of the uploads: the values around each limit.
UploadSizePool == {0, 99, 100, MaxUploadBytes, MaxUploadBytes + 1}

DimensionPool == {9, 10, 49, 50, MaxDimension, MaxDimension + 1}

Endpoints == {"remove-bg", "segment"}

\* The minimum width and height of an endpoint (main.py 143 and 378).
MinDimension(endpoint) == IF endpoint = "remove-bg" THEN 10 ELSE 50

HTTPException(status_code, detail) ==
  [exc |-> "HTTPException", status_code |-> status_code, detail |-> detail]

\* The try block that decodes the image (main.py 118-167, 353-387): <<>>
\* when it completes, <<e>> when it raises e.
DecodeBlock(endpoint, req) ==
  IF ~req.decodes THEN << [exc |-> "UnidentifiedImageError"] >>
  ELSE IF req.width > MaxDimension \/ req.height > MaxDimension
    THEN << HTTPException(400, [error |-> "image_too_large",
                                max_width |-> MaxDimension,
                                max_height |-> MaxDimension]) >>
  ELSE IF req.width < MinDimension(endpoint) \/ req.height < MinDimension(endpoint)
    THEN << HTTPException(400, [error |-> "image_too_small",
                                min_width |-> MinDimension(endpoint),
                                min_height |-> MinDimension(endpoint)]) >>
  ELSE <<>>

\* The decoding with its "except Exception" clause (main.py 169-178,
\* 389-398), which also catches the HTTPExceptions raised in the block.
DecodeStage(endpoint, req) ==
  IF DecodeBlock(endpoint, req) # <<>>
    THEN << HTTPException(400, [error |-> "invalid_image"]) >>
  ELSE <<>>

\* The model call with its except clauses (main.py 181-222, 401-442).
ModelStage(endpoint, req) ==
  IF ~req.available
    THEN << HTTPException(500, [error |-> "service_unavailable"]) >>
  ELSE IF req.model_raises
    THEN << HTTPException(500,
              [error |-> IF endpoint = "remove-bg"
                           THEN "background_removal_failed"
                           ELSE "segmentation_failed"]) >>
  ELSE <<>>

\* What the client gets, with whether the image was decoded and whether the
\* model was invoked on the way.
UploadOutcome(status_code, detail, decoded, invoked) ==
  [status_code |-> status_code, detail |-> detail,
   decoded |-> decoded, invoked |-> invoked]

\* The size limits are checked before the content type.
upload_endpoint_sizeFirst(endpoint, req) ==
  IF req.size > MaxUploadBytes
    THEN UploadOutcome(413, [error |-> "file_too_large",
                             max_size_bytes |-> MaxUploadBytes,
                             max_size_mb |-> MaxUploadBytes \div (1024 * 1024)],
                       FALSE, FALSE)
  ELSE IF req.size < MinUploadBytes
    THEN UploadOutcome(400, [error |-> "file_too_small", size_bytes |-> req.size],
                       FALSE, FALSE)
  ELSE IF req.content_type = <<>> \/ ~StartsWith(req.content_type, ImagePrefix)
    THEN UploadOutcome(400, [error |-> "invalid_file_type"], FALSE, FALSE)
  ELSE IF DecodeStage(endpoint, req) # <<>>
    THEN UploadOutcome(DecodeStage(endpoint, req)[1].status_code,
                       DecodeStage(endpoint, req)[1].detail, TRUE, FALSE)
  ELSE IF ModelStage(endpoint, req) # <<>>
    THEN UploadOutcome(ModelStage(endpoint, req)[1].status_code,
                       ModelStage(endpoint, req)[1].detail, TRUE, req.available)
  ELSE UploadOutcome(200, [success |-> TRUE], TRUE, TRUE)

\* remove_background and segment_image_endpoint (main.py 77-290, 312-456).
upload_endpoint(endpoint, req) ==
  IF req.content_type = <<>> \/ ~StartsWith(req.content_type, ImagePrefix)
    THEN UploadOutcome(400, [error |-> "invalid_file_type"], FALSE, FALSE)
  ELSE IF req.size > MaxUploadBytes
    THEN UploadOutcome(413, [error |-> "file_too_large",
                             max_size_bytes |-> MaxUploadBytes,
                             max_size_mb |-> MaxUploadBytes \div (1024 * 1024)],
                       FALSE, FALSE)
  ELSE IF req.size < MinUploadBytes
    THEN UploadOutcome(400, [error |-> "file_too_small", size_bytes |-> req.size],
                       FALSE, FALSE)
  ELSE IF DecodeStage(endpoint, req) # <<>>
    THEN UploadOutcome(DecodeStage(endpoint, req)[1].status_code,
                       DecodeStage(endpoint, req)[1].detail, TRUE, FALSE)
  ELSE IF ModelStage(endpoint, req) # <<>>
    THEN UploadOutcome(ModelStage(endpoint, req)[1].status_code,
                       ModelStage(endpoint, req)[1].detail, TRUE, req.available)
  ELSE UploadOutcome(200, [success |-> TRUE], TRUE, TRUE)

InitUpload ==
  /\ NoRequest
  /\ \E endpoint \in Endpoints :
       \E req \in [content_type : ContentTypePool,
                   size : UploadSizePool,
                   decodes : BOOLEAN,
                   width : DimensionPool,
                   height : DimensionPool,
                   available : BOOLEAN,
                   model_raises : BOOLEAN] :
         fn_in = [endpoint |-> endpoint, req |-> req]
  /\ fn_out = <<>>

\* One of the two endpoints handles the upload.
HandleUpload ==
  /\ fn_out = <<>>
  /\ fn_out' = << upload_endpoint(fn_in.endpoint, fn_in.req) >>
  /\ UNCHANGED <<procVars, fn_in, routeVars, threadVars>>

SpecUpload == InitUpload /\ [][HandleUpload]_vars

(* ------------------------ vocabulary of the claims ---------------------- *)

Done == pc = "done"

FromSegment(layer) == layer.id[1] = "segment"

\* Position of a layer in construction order: the segments in input order,
\* then the text elements in input order.
ConstructionRank(layer) ==
  IF FromSegment(layer)
    THEN CHOOSE i \in 1..Len(segments) : segments[i].id = layer.id
    ELSE Len(segments) + (CHOOSE k \in 1..Len(ocr_results) : ocr_results[k].id = layer.id)

\* The ids of the texts selected in the iterations before iteration i.
PriorIds(i) == { matching[j][1].id : j \in { n \in 1..(i - 1) : matching[n] # <<>> } }

\* The acceptance rule as the specification words it, on exact fractions.
Acceptable(segment, text) ==
  LET iou == _calculate_iou(segment.bbox, text.bbox)
      inside == /\ segment.bbox.x <= text.center.x
                /\ text.center.x <= segment.bbox.x + segment.bbox.width
                /\ segment.bbox.y <= text.center.y
                /\ text.center.y <= segment.bbox.y + segment.bbox.height
  IN  2 * iou[1] > iou[2] \/ (inside /\ 10 * iou[1] > 3 * iou[2])

\* Indices of the text elements a segment may take when the ids in taken
\* are consumed.
Candidates(segment, taken) ==
  { k \in 1..Len(ocr_results) :
      ocr_results[k].id \notin taken /\ Acceptable(segment, ocr_results[k]) }

IouOf(segment, k) == _calculate_iou(segment.bbox, ocr_results[k].bbox)

\* The greedy choice: the first candidate of greatest IoU, <<>> if none.
BestCandidate(segment, taken) ==
  LET cands == Candidates(segment, taken)
  IN  IF cands = {} THEN <<>>
      ELSE LET k == CHOOSE c \in cands :
                      \A d \in cands :
                         /\ ~RatGT(IouOf(segment, d), IouOf(segment, c))
                         /\ (d < c => RatGT(IouOf(segment, c), IouOf(segment, d)))
           IN  <<ocr_results[k]>>

\* A step that runs one iteration of the segment loop.
SegmentStep == pc = "segments" /\ seg_i <= Len(segments) /\ seg_i' = seg_i + 1

\* The value of matching_text in the iteration a SegmentStep runs.
Selected == matching'[Len(matching')]

(* -------------------------------- claims -------------------------------- *)

\* C1: no text element id is the matched text of more than one
\* segment-derived layer, and each segment-derived layer carries at most one
\* text element: the iterations that selected a text selected pairwise
\* different ids, and in the returned list the layer of segment i carries
\* exactly the content of the one text selected for it.
C1_UniqueAssignment ==
  /\ \A i, j \in DOMAIN matching :
       (i # j /\ matching[i] # <<>> /\ matching[j] # <<>>)
         => matching[i][1].id # matching[j][1].id
  /\ \A i \in DOMAIN matching : Len(matching[i]) <= 1
  /\ Done =>
       \A i \in 1..Len(segments) :
         \E n \in 1..Len(result) :
           /\ result[n].id = segments[i].id
           /\ ("text" \in DOMAIN result[n]) = (matching[i] # <<>>)
           /\ matching[i] # <<>> => result[n].text.content = matching[i][1].content

\* Two segments both accept one text element and the call has returned.
C1_Witness ==
  /\ Done
  /\ \E i, j \in 1..Len(segments) :
       /\ i < j
       /\ matching[i] # <<>>
       /\ Acceptable(segments[j], matching[i][1])

\* C2: in the returned list every 'background' layer precedes every layer of
\* another type, and among the non-background layers area (0 where a layer
\* has none) is non-increasing.
C2_BackgroundFirstAreaDescending ==
  Done =>
    \A i, j \in 1..Len(result) :
      i < j =>
        /\ result[j].type = "background" => result[i].type = "background"
        /\ (result[i].type # "background" /\ result[j].type # "background")
             => GetArea(result[i]) >= GetArea(result[j])

\* The sort changed the construction order: a background segment that was
\* retyped to 'text' moved behind a later background layer.
C2_Witness ==
  /\ Done
  /\ \E i, j \in 1..Len(result) :
       /\ i < j
       /\ ConstructionRank(result[i]) > ConstructionRank(result[j])
       /\ result[i].type = "background"
       /\ result[j].type = "text"

\* C3: layers equal on the sort key (background-or-not, area) keep their
\* construction order: segment layers in segment order, then unmatched-text
\* layers in text order.
C3_StableOrder ==
  Done =>
    \A i, j \in 1..Len(result) :
      (i < j /\ SortKey(result[i]) = SortKey(result[j]))
        => ConstructionRank(result[i]) < ConstructionRank(result[j])

\* Two segment layers tie on the key and so do two unmatched-text layers.
C3_Witness ==
  /\ Done
  /\ \E i, j \in 1..Len(result) :
       /\ i < j /\ SortKey(result[i]) = SortKey(result[j])
       /\ FromSegment(result[i]) /\ FromSegment(result[j])
  /\ \E i, j \in 1..Len(result) :
       /\ i < j /\ SortKey(result[i]) = SortKey(result[j])
       /\ ~FromSegment(result[i]) /\ ~FromSegment(result[j])

\* C4: a second assembly of the same segments, texts and image on the same
\* ImageProcessor returns the same ordered layer list, and the matched-id set
\* is empty when the segment loop starts.
C4_RepeatableAssembly ==
  /\ (Done /\ calls > 1) => result = prev_result
  /\ (pc = "segments" /\ seg_i = 1) => matched_text_ids = {}

\* The second call has returned and it matched a text to a segment.
C4_Witness ==
  /\ Done
  /\ calls > 1
  /\ \E i \in DOMAIN matching : matching[i] # <<>>

\* C5: every layer of the output carries exactly one of 'text' and 'style'.
C5_ExactlyOneOfTextStyle ==
  \A n \in 1..Len(layers) :
    ("text" \in DOMAIN layers[n]) # ("style" \in DOMAIN layers[n])

\* The returned list holds a matched segment, an unmatched segment and an
\* unmatched text element.
C5_Witness ==
  /\ Done
  /\ \E n \in 1..Len(result) : FromSegment(result[n]) /\ "text" \in DOMAIN result[n]
  /\ \E n \in 1..Len(result) : FromSegment(result[n]) /\ "style" \in DOMAIN result[n]
  /\ \E n \in 1..Len(result) : ~FromSegment(result[n])

\* C6: in every output layer 'text' is present only when the type is 'text'
\* and 'style' only when the type is not 'text', also for a segment typed
\* 'text' that matched no text element.
C6_SubstructureFollowsType ==
  Done =>
    \A n \in 1..Len(result) :
      /\ "text" \in DOMAIN result[n] => result[n].type = "text"
      /\ "style" \in DOMAIN result[n] => result[n].type # "text"

\* C7: for a segment and the not-yet-matched texts, _find_matching_text
\* returns a text iff some unmatched text has iou > 0.5 or (center inside and
\* iou > 0.3); the returned text is unmatched and satisfies that condition,
\* so its iou exceeds 0.3.
C7_ReturnsIffAcceptable ==
  [][SegmentStep =>
       LET segment == segments[seg_i]
           cands == Candidates(segment, matched_text_ids)
       IN  /\ (Selected # <<>>) = (cands # {})
           /\ Selected # <<>> =>
                LET iou == _calculate_iou(segment.bbox, Selected[1].bbox)
                IN  /\ Selected[1].id \notin matched_text_ids
                    /\ \E k \in cands : ocr_results[k] = Selected[1]
                    /\ 10 * iou[1] > 3 * iou[2]]_vars

\* One segment took a text through the containment branch (iou <= 0.5) and
\* another took none although an unmatched text overlaps it with
\* 0.3 < iou <= 0.5, that text's center lying outside the segment.
C7_Witness ==
  /\ Done
  /\ \E i \in DOMAIN matching :
       /\ matching[i] # <<>>
       /\ LET iou == _calculate_iou(segments[i].bbox, matching[i][1].bbox)
          IN  2 * iou[1] <= iou[2]
  /\ \E j \in DOMAIN matching :
       /\ matching[j] = <<>>
       /\ \E k \in 1..Len(ocr_results) :
            /\ ocr_results[k].id \notin PriorIds(j)
            /\ ~CenterInside(segments[j].bbox, ocr_results[k].center)
            /\ 10 * IouOf(segments[j], k)[1] > 3 * IouOf(segments[j], k)[2]

\* C8: the selected text has the greatest IoU among the segment's accepted
\* candidates, the first in text-list order among those of greatest IoU, and
\* the selection consumes that one text only.
C8_GreatestIouFirstOnTie ==
  [][(SegmentStep /\ Selected # <<>>) =>
       LET segment == segments[seg_i]
           cands == Candidates(segment, matched_text_ids)
           sel == CHOOSE k \in 1..Len(ocr_results) : ocr_results[k] = Selected[1]
       IN  /\ \A d \in cands :
                /\ ~RatGT(IouOf(segment, d), IouOf(segment, sel))
                /\ ~RatGT(IouOf(segment, sel), IouOf(segment, d)) => sel <= d
           /\ matched_text_ids' = matched_text_ids \cup {Selected[1].id}]_vars

\* A segment had two accepted candidates of the same greatest IoU; the call
\* has returned and the later of the two is still unconsumed.
C8_Witness ==
  /\ Done
  /\ \E i \in DOMAIN matching :
       /\ matching[i] # <<>>
       /\ \E k \in Candidates(segments[i], PriorIds(i)) :
            /\ ocr_results[k] # matching[i][1]
            /\ ~RatGT(IouOf(segments[i], k),
                      _calculate_iou(segments[i].bbox, matching[i][1].bbox))
            /\ ~RatGT(_calculate_iou(segments[i].bbox, matching[i][1].bbox),
                      IouOf(segments[i], k))
            /\ ocr_results[k].id \notin matched_text_ids

\* C9: segments are matched in input order, and a text selected for an
\* earlier segment is no candidate of a later one: every segment gets the
\* best candidate among the texts no earlier segment took, or none.
C9_EarlierSegmentWins ==
  /\ pc = "segments" => Len(matching) = seg_i - 1
  /\ Done => Len(matching) = Len(segments)
  /\ \A i \in DOMAIN matching :
       matching[i] = BestCandidate(segments[i], PriorIds(i))

\* The text an earlier segment took has a higher IoU with a later segment,
\* which accepts it but went without it.
C9_Witness ==
  /\ Done
  /\ \E i, j \in DOMAIN matching :
       /\ i < j
       /\ matching[i] # <<>>
       /\ Acceptable(segments[j], matching[i][1])
       /\ RatGT(_calculate_iou(segments[j].bbox, matching[i][1].bbox),
                _calculate_iou(segments[i].bbox, matching[i][1].bbox))
       /\ matching[j] = <<>>

\* C10: after assembly every text element accounts for exactly one output
\* layer, as the matched text of one segment layer or as its own text-only
\* layer with its id, bbox, center and content, and the output has
\* len(segments) + (number of unmatched texts) layers.
C10_EveryTextOnce ==
  Done =>
    /\ Len(result) = Len(segments)
         + Cardinality({ k \in 1..Len(ocr_results) :
                           \A i \in DOMAIN matching : matching[i] # <<ocr_results[k]>> })
    /\ \A k \in 1..Len(ocr_results) :
         LET t == ocr_results[k]
             taken == { i \in DOMAIN matching : matching[i] = <<t>> }
             own == { n \in 1..Len(result) : result[n].id = t.id }
         IN  /\ Cardinality(taken) + Cardinality(own) = 1
             /\ \A n \in own :
                  /\ result[n].bbox = t.bbox
                  /\ result[n].center = t.center
                  /\ result[n].content = t.content
                  /\ "text" \in DOMAIN result[n]
                  /\ "style" \notin DOMAIN result[n]
             /\ \A i \in taken :
                  \E n \in 1..Len(result) :
                    /\ result[n].id = segments[i].id
                    /\ result[n].content = t.content

\* One text was matched to a segment and another got its own layer.
C10_Witness ==
  /\ Done
  /\ \E i \in DOMAIN matching : matching[i] # <<>>
  /\ \E n \in 1..Len(result) : ~FromSegment(result[n])

\* C11: a segment-derived layer has type 'text' whenever the segment was
\* matched to a text element, whatever the classifier's type, and has the
\* segment's classified type whenever no text was matched.
C11_TypeFollowsMatch ==
  Done =>
    \A i \in 1..Len(segments) :
      \E n \in 1..Len(result) :
        /\ result[n].id = segments[i].id
        /\ result[n].type = IF matching[i] # <<>> THEN "text" ELSE segments[i].type

\* A segment classified 'background' was matched to a text element and
\* another segment, not classified 'text', matched none.
C11_Witness ==
  /\ Done
  /\ \E i \in 1..Len(segments) :
       segments[i].type = "background" /\ matching[i] # <<>>
  /\ \E i \in 1..Len(segments) :
       segments[i].type # "text" /\ matching[i] = <<>>

\* Width and height of the common part of two boxes, 0 where they are apart.
OverlapArea(a, b) ==
  LET w == Min(a.x + a.width, b.x + b.width) - Max(a.x, b.x)
      h == Min(a.y + a.height, b.y + b.height) - Max(a.y, b.y)
  IN  IF w <= 0 \/ h <= 0 THEN 0 ELSE w * h

\* Equality of two fractions.
RatEq(p, q) == p[1] * q[2] = q[1] * p[2]

\* C12: _calculate_iou is symmetric: IoU(a, b) = IoU(b, a) for all boxes of
\* non-negative width and height.
C12_IouSymmetric ==
  fn_out # <<>> => RatEq(fn_out[1].ab, fn_out[1].ba)

\* Two different overlapping boxes of different areas were compared and the
\* IoU lies strictly between 0 and 1.
C12_Witness ==
  /\ fn_out # <<>>
  /\ fn_in[1].width * fn_in[1].height # fn_in[2].width * fn_in[2].height
  /\ fn_out[1].ab[1] > 0
  /\ fn_out[1].ab[1] < fn_out[1].ab[2]

\* C13: for boxes of non-negative width and height _calculate_iou returns a
\* value in [0, 1] (a fraction with a positive denominator: no division by
\* zero), and 0.0 when the rectangles do not overlap or the union area is 0.
C13_IouBounded ==
  fn_out # <<>> =>
    LET a == fn_in[1]
        b == fn_in[2]
        iou == fn_out[1].ab
    IN  /\ iou[2] > 0
        /\ 0 <= iou[1]
        /\ iou[1] <= iou[2]
        /\ OverlapArea(a, b) = 0 => iou[1] = 0
        /\ a.width * a.height + b.width * b.height - OverlapArea(a, b) = 0
             => iou = <<0, 1>>

\* Two boxes of positive area that are apart in x and in y were compared.
C13_Witness ==
  /\ fn_out # <<>>
  /\ fn_in[1].width * fn_in[1].height > 0
  /\ fn_in[2].width * fn_in[2].height > 0
  /\ fn_in[1].x + fn_in[1].width < fn_in[2].x
  /\ fn_in[1].y + fn_in[1].height < fn_in[2].y
  /\ fn_out[1].ab = <<0, 1>>

\* C14 as claimed: _calculate_iou(a, b) is 1.0 iff a and b are identical,
\* boxes of zero width or height included.
C14_OneIffIdentical ==
  fn_out # <<>> =>
    (RatEq(fn_out[1].ab, <<1, 1>>) <=> fn_in[1] = fn_in[2])

\* C14 as amended: _calculate_iou(a, b) is 1.0 iff a and b are identical and
\* have positive width and height; two identical boxes of zero area give 0.0.
C14_OneIffIdenticalPositiveArea ==
  fn_out # <<>> =>
    /\ RatEq(fn_out[1].ab, <<1, 1>>)
         <=> (fn_in[1] = fn_in[2] /\ fn_in[1].width > 0 /\ fn_in[1].height > 0)
    /\ (fn_in[1] = fn_in[2] /\ fn_in[1].width * fn_in[1].height = 0)
         => fn_out[1].ab = <<0, 1>>

\* A box of zero width and positive height was compared with itself and the
\* result is 0.0.
C14_Witness ==
  /\ fn_out # <<>>
  /\ fn_in[1] = fn_in[2]
  /\ fn_in[1].width = 0
  /\ fn_in[1].height > 0
  /\ fn_out[1].ab = <<0, 1>>

ZeroArea(bbox) == bbox.width * bbox.height = 0

\* C15 as claimed: a text element of zero area has IoU 0 with every segment,
\* and when its center lies inside or on the boundary of a segment's bbox the
\* containment branch still lets that segment match: a segment that has such
\* a text among its unmatched texts does not stay without a text.
C15_ZeroAreaMatchesByContainment ==
  Done =>
    \A k \in 1..Len(ocr_results) :
      ZeroArea(ocr_results[k].bbox) =>
        \A i \in 1..Len(segments) :
          /\ IouOf(segments[i], k)[1] = 0
          /\ (/\ ocr_results[k].id \notin PriorIds(i)
              /\ CenterInside(segments[i].bbox, ocr_results[k].center))
               => matching[i] # <<>>

\* C15 as amended: a text element of zero area has IoU 0 with every segment
\* and is never matched, through neither branch, also when its center lies
\* inside or on the boundary of a segment's bbox; it gets its own layer.
C15_ZeroAreaNeverMatched ==
  Done =>
    \A k \in 1..Len(ocr_results) :
      ZeroArea(ocr_results[k].bbox) =>
        /\ \A i \in 1..Len(segments) :
             /\ IouOf(segments[i], k)[1] = 0
             /\ matching[i] # <<ocr_results[k]>>
        /\ \E n \in 1..Len(result) : result[n].id = ocr_results[k].id

\* A zero-width text has its center on the boundary of a segment's bbox and
\* that segment ended without a text.
C15_Witness ==
  /\ Done
  /\ \E k \in 1..Len(ocr_results) :
       /\ ZeroArea(ocr_results[k].bbox)
       /\ \E i \in 1..Len(segments) :
            /\ CenterInside(segments[i].bbox, ocr_results[k].center)
            /\ ocr_results[k].center.x = segments[i].bbox.x
            /\ matching[i] = <<>>

\* The rules of the classifier on integers: width w, height h (aspect ratio
\* 1.0 when h = 0), area and total image area.
BackgroundRule(in) ==
  2 * in.area > in.image_shape[1] * in.image_shape[2]

TextRule(in) ==
  /\ in.h > 0
  /\ 2 * in.w > 3 * in.h
  /\ in.w < 10 * in.h
  /\ 10 * in.area < 3 * in.image_shape[1] * in.image_shape[2]

IconRule(in) ==
  /\ IF in.h > 0 THEN 2 * in.w > in.h /\ in.w < 2 * in.h ELSE TRUE
  /\ 10 * in.area < in.image_shape[1] * in.image_shape[2]

\* C16: _infer_segment_type returns the label of the first matching rule in
\* the order background, text, icon, shape, with strict comparisons: an area
\* ratio of exactly 0.5 is not background and a segment in both the text and
\* the icon range is text.
C16_FirstRuleWins ==
  fn_out # <<>> =>
    /\ fn_out[1] = IF BackgroundRule(fn_in) THEN "background"
                   ELSE IF TextRule(fn_in) THEN "text"
                   ELSE IF IconRule(fn_in) THEN "icon"
                   ELSE "shape"
    /\ 2 * fn_in.area = fn_in.image_shape[1] * fn_in.image_shape[2]
         => fn_out[1] # "background"
    /\ (TextRule(fn_in) /\ IconRule(fn_in)) => fn_out[1] = "text"

\* A bbox of aspect ratio 7/4 with area ratio 0.05 (text and icon ranges
\* both hold) was classified.
C16_Witness ==
  /\ fn_out # <<>>
  /\ fn_in.w = 7 /\ fn_in.h = 4 /\ fn_in.area = 5
  /\ TextRule(fn_in) /\ IconRule(fn_in)
  /\ fn_out[1] = "text"

\* 200 times centerX = x + width/2, and 200 times a fraction p/100 of the
\* image width.
CenterX200(in) == 100 * (2 * in.bbox.x + in.bbox.width)

Percent200(in, p) == 2 * p * in.image_width

\* C17: _detect_text_alignment returns 'left' iff centerX < 0.33 * width,
\* 'right' iff centerX > 0.67 * width and 'center' otherwise; a centerX
\* exactly on a threshold yields 'center'.
C17_AlignmentThresholds ==
  fn_out # <<>> =>
    /\ fn_out[1] = "left" <=> CenterX200(fn_in) < Percent200(fn_in, 33)
    /\ fn_out[1] = "right" <=> CenterX200(fn_in) > Percent200(fn_in, 67)
    /\ fn_out[1] = "center"
         <=> /\ CenterX200(fn_in) >= Percent200(fn_in, 33)
             /\ CenterX200(fn_in) <= Percent200(fn_in, 67)

\* A box whose centerX is exactly 0.33 of the image width was classified
\* 'center'.
C17_Witness ==
  /\ fn_out # <<>>
  /\ CenterX200(fn_in) = Percent200(fn_in, 33)
  /\ fn_out[1] = "center"

\* The colours a region holds.
Present(px) == { c \in DOMAIN px : px[c] > 0 }

\* C18: text-color detection never raises: it returns (0,0,0) for an empty
\* region or when an internal step fails, otherwise the median colour of the
\* dark class of the binarized region, or of the light class when the dark
\* class is empty.  So a region of one colour yields that colour, and a
\* region of several grey levels yields a colour between those of its
\* darkest level, never (0,0,0) by default.
C18_FontColorTotal ==
  fn_out # <<>> =>
    LET px == fn_in.region.pixels
        out == fn_out[1]
        dark == DarkPixels(px)
    IN  /\ out \in (0..255) \X (0..255) \X (0..255)
        /\ PixelCount(px) = 0 => out = <<0, 0, 0>>
        /\ fn_in.fails => out = <<0, 0, 0>>
        /\ (PixelCount(px) > 0 /\ ~fn_in.fails) =>
             /\ PixelCount(dark) > 0 => out = MedianColor(dark)
             /\ PixelCount(dark) = 0 => out = MedianColor(LightPixels(px))
             /\ \A c \in Present(px) : Present(px) = {c} => out = c
             /\ \E c \in Present(px) :
                  /\ \A d \in Present(px) : Gray(c) <= Gray(d)
                  /\ PixelCount(dark) > 0 => dark[c] > 0

\* A region of one light colour: the dark class is empty and the colour of
\* the light class is returned.
C18_Witness ==
  /\ fn_out # <<>>
  /\ ~fn_in.fails
  /\ Present(fn_in.region.pixels) = { <<200, 200, 200>> }
  /\ PixelCount(DarkPixels(fn_in.region.pixels)) = 0
  /\ fn_out[1] = <<200, 200, 200>>

\* The colour sampling of _get_dominant_color does not succeed on this bbox:
\* the crop is empty, or ColorThief raises.
SamplingFails(img, bbox) ==
  \/ RegionSize(Region(img, bbox)) = 0
  \/ ColorThiefRaises(Region(img, bbox))

\* The segments of the current request whose colour sampling fails when their
\* layer is built.
FailingSegments ==
  { i \in DOMAIN matching :
      matching[i] = <<>> /\ SamplingFails(image, segments[i].bbox) }

\* C19: a segment whose bbox yields an empty crop, or whose colour sampling
\* fails, gets the fill colour '#000000'; its layer is appended all the same,
\* the loop goes on with the segments behind it, and the text elements still
\* get their layers.
C19_DegenerateRegionIsBlack ==
  /\ pc \in {"segments", "done"} =>
       /\ Len(matching) = seg_i - 1
       /\ pc = "segments" => Len(layers) = seg_i - 1
       /\ \A i \in FailingSegments :
            \E n \in 1..Len(layers) :
              /\ layers[n].id = segments[i].id
              /\ layers[n].style.fill_color = "#000000"
  /\ Done =>
       /\ seg_i = Len(segments) + 1
       /\ \A i \in 1..Len(segments) :
            \E n \in 1..Len(result) : result[n].id = segments[i].id
       /\ \A k \in 1..Len(ocr_results) :
            \/ \E i \in DOMAIN matching : matching[i] = <<ocr_results[k]>>
            \/ \E n \in 1..Len(result) : result[n].id = ocr_results[k].id

\* The crop of one segment is empty although the image is not white, a
\* segment behind it and a text element have their layers too.
C19_Witness ==
  /\ Done
  /\ \E i \in FailingSegments :
       /\ RegionSize(Region(image, segments[i].bbox)) = 0
       /\ ~ColorThiefRaises(Region(image, segments[i].bbox))
       /\ i < Len(segments)
       /\ \E n \in 1..Len(result) :
            /\ result[n].id = segments[i + 1].id
            /\ result[n].style.fill_color # "#000000"
  /\ \E n \in 1..Len(result) : ~FromSegment(result[n])

\* The raw masks (by position) from which _process_mask builds a segment:
\* nothing raises and the area passes the filter.
YieldingMasks ==
  { k \in 1..Len(sam_masks) :
      ~MaskRaises(sam_masks[k]) /\ sam_masks[k].area >= MIN_SEGMENT_AREA }

\* The raw masks on which _process_mask raises.
RaisingMasks == { k \in 1..Len(sam_masks) : MaskRaises(sam_masks[k]) }

SegmentIds == { segments[i].id : i \in 1..Len(segments) }

\* C20 as stated: a failing item is skipped and every other one yields its
\* result, in both loops: a raw mask has its segment iff _process_mask does
\* not raise on it (and it passes the area filter), and a segment has its
\* layer iff nothing failed while its layer was built.
C20_FailingItemSkippedInBothLoops ==
  /\ pc # "sam" =>
       \A k \in 1..Len(sam_masks) :
         (<<"segment", k - 1>> \in SegmentIds) <=> (k \in YieldingMasks)
  /\ Done =>
       \A i \in 1..Len(segments) :
         (\E n \in 1..Len(result) : result[n].id = segments[i].id)
           <=> (i \notin FailingSegments)

\* C20 (amended): while segments are built, a raw mask on which _process_mask
\* raises is skipped and every other mask that passes the area filter still
\* yields its segment; while layers are assembled no segment is skipped: the
\* one per-segment failure, of the colour sampling, is recovered inside
\* _get_dominant_color, and every segment, failing or not, has exactly one
\* layer.  Every request runs to its result.
C20_OnlyRaisingMasksSkipped ==
  /\ pc # "sam" =>
       /\ \A k \in 1..Len(sam_masks) :
            (<<"segment", k - 1>> \in SegmentIds) <=> (k \in YieldingMasks)
       /\ Len(segments) = Cardinality(YieldingMasks)
  /\ Done =>
       \A i \in 1..Len(segments) :
         Cardinality({ n \in 1..Len(result) : result[n].id = segments[i].id }) = 1

\* _process_mask raised on a mask, a mask behind it has its segment, the
\* colour sampling of a segment failed and that segment has its layer.
C20_Witness ==
  /\ Done
  /\ \E k \in RaisingMasks : \E m \in YieldingMasks : k < m
  /\ \E i \in FailingSegments :
       \E n \in 1..Len(result) : result[n].id = segments[i].id

Responded == route_pc = "responded" /\ response # <<>>

C29_SavedFileRemoved ==
  (Responded /\ filepath # <<>>) => filepath[1] \notin disk

\* The fields of the data model's Layer that every layer is to carry.
LayerFields ==
  {"id", "type", "bbox", "center", "area", "content", "confidence",
   "editable", "locked", "visible"}

SegmentTypes == {"background", "text", "icon", "shape"}

\* The colour (and, for a text, the alignment) of a layer has been sampled.
Sampled(layer) ==
  \/ /\ "text" \in DOMAIN layer
     /\ {"color", "align"} \subseteq DOMAIN layer.text
  \/ /\ "style" \in DOMAIN layer
     /\ "fill_color" \in DOMAIN layer.style

\* C23 as stated: the phases of a request do not interleave: every segment is
\* classified before matching starts, and no layer is assembled before the
\* matching of all segments has finished.
C23_PhasesNotInterleaved ==
  /\ pc \in {"match", "segments", "done"} =>
       \A i \in 1..Len(segments) : segments[i].type \in SegmentTypes
  /\ layers # <<>> => Len(matching) = Len(segments)

\* C23 (amended): every segment is classified before matching starts; then
\* the segments are handled one after the other, and for each one the
\* matching, the assembly of its layer and the sampling of its colour and
\* alignment happen together: when segment i is about to be matched, the
\* layers of segments 1..i-1 are already assembled with their colours.  The
\* layers of the unmatched texts follow after the last segment.
C23_PerSegmentInterleaving ==
  /\ pc \in {"match", "segments", "done"} =>
       /\ segments = segment_image(image, sam_masks)
       /\ \A i \in 1..Len(segments) : segments[i].type \in SegmentTypes
  /\ pc = "match" => matching = <<>> /\ layers = <<>>
  /\ pc = "segments" =>
       /\ Len(matching) = seg_i - 1
       /\ Len(layers) = seg_i - 1
       /\ \A n \in 1..Len(layers) :
            /\ layers[n].id = segments[n].id
            /\ Sampled(layers[n])
  /\ Done => \A n \in 1..Len(result) : Sampled(result[n])

\* The layer of the first segment is assembled and coloured while the second
\* segment has not been matched yet.
C23_Witness ==
  /\ pc = "segments"
  /\ Len(segments) = 2
  /\ seg_i = 2
  /\ Len(matching) = 1
  /\ Len(layers) = 1
  /\ Sampled(layers[1])

\* The upload passes the checks of content type and of length.
PassesFileChecks(req) ==
  /\ req.content_type # <<>>
  /\ StartsWith(req.content_type, ImagePrefix)
  /\ req.size <= MaxUploadBytes
  /\ req.size >= MinUploadBytes

\* C24: an upload that decodes as an image is rejected with status 400 and
\* detail.error 'image_too_large' (max_width = max_height = 4096) when its
\* width or height exceeds 4096, and otherwise with status 400 and
\* detail.error 'image_too_small' (with the endpoint's min_width and
\* min_height) when its width or height is below the endpoint's minimum.
C24_DimensionErrors ==
  (fn_out # <<>> /\ PassesFileChecks(fn_in.req) /\ fn_in.req.decodes) =>
    LET req == fn_in.req
        out == fn_out[1]
        min == MinDimension(fn_in.endpoint)
    IN  /\ (req.width > MaxDimension \/ req.height > MaxDimension) =>
             /\ out.status_code = 400
             /\ out.detail.error = "image_too_large"
        /\ (/\ req.width <= MaxDimension
            /\ req.height <= MaxDimension
            /\ (req.width < min \/ req.height < min)) =>
             /\ out.status_code = 400
             /\ out.detail.error = "image_too_small"

C26_SortedFilteredUniqueIds ==
  pc # "sam" =>
    /\ \A i \in 1..(Len(segments) - 1) : segments[i].area >= segments[i + 1].area
    /\ \A i \in 1..Len(segments) :
         /\ segments[i].area >= MIN_SEGMENT_AREA
         /\ \E k \in 1..Len(sam_masks) :
              /\ segments[i].id = <<"segment", k - 1>>
              /\ segments[i].area = sam_masks[k].area
              /\ segments[i].bbox = Box(sam_masks[k].bbox[1], sam_masks[k].bbox[2],
                                        sam_masks[k].bbox[3], sam_masks[k].bbox[4])
    /\ \A i, j \in 1..Len(segments) :
         segments[i].id = segments[j].id => i = j

\* The first raw mask was filtered out and a larger mask stands behind a
\* smaller one, so the ids differ from the positions: the list starts with
\* segment_2 and goes on with segment_1.
C26_Witness ==
  /\ pc # "sam"
  /\ Len(sam_masks) = 3
  /\ sam_masks[1].area < MIN_SEGMENT_AREA
  /\ Len(segments) = 2
  /\ segments[1].id = <<"segment", 2>>
  /\ segments[2].id = <<"segment", 1>>
  /\ segments[1].area > segments[2].area

\* C27: while _match_segments_with_text runs, the segment list, the fields
\* of every segment (its classified type too, also when its layer is
\* retyped to 'text'), the text elements and the image stay as they were
\* when it was called.
C27_InputsUnchanged ==
  [][(pc = "match" \/ pc = "segments") =>
       (segments' = segments /\ ocr_results' = ocr_results /\ image' = image)]_vars

\* A segment that the classifier did not type 'text' was matched: its layer
\* is of type 'text', the segment still has its classified type.
C27_Witness ==
  /\ Done
  /\ \E i \in DOMAIN matching :
       /\ matching[i] # <<>>
       /\ segments[i].type # "text"
       /\ segments[i].type
            = _infer_segment_type(segments[i].aspect_ratio, segments[i].area, image.shape)
       /\ \E n \in 1..Len(result) :
            /\ result[n].id = segments[i].id
            /\ result[n].type = "text"

\* C28: the layer of a matched segment has the segment's id, bbox, center
\* and area, the matched text's content, font_size and confidence, and a
\* text colour and an alignment computed from the text's bbox.
C28_MatchedLayerFields ==
  pc \in {"segments", "done"} =>
    \A i \in DOMAIN matching :
      matching[i] # <<>> =>
        LET t == matching[i][1]
            s == segments[i]
        IN  \E n \in 1..Len(layers) :
              /\ layers[n].id = s.id
              /\ layers[n].bbox = s.bbox
              /\ layers[n].center = s.center
              /\ layers[n].area = s.area
              /\ layers[n].content = t.content
              /\ layers[n].text.content = t.content
              /\ layers[n].text.font_size = t.font_size
              /\ layers[n].confidence = t.confidence
              /\ layers[n].text.color = _get_text_color(image, t.bbox)
              /\ layers[n].text.align = _detect_text_alignment(t.bbox, image.shape[2])

\* A matched pair whose two bboxes give different alignments: the layer has
\* the alignment of the text's bbox.
C28_Witness ==
  /\ Done
  /\ \E i \in DOMAIN matching :
       /\ matching[i] # <<>>
       /\ _detect_text_alignment(matching[i][1].bbox, image.shape[2])
            # _detect_text_alignment(segments[i].bbox, image.shape[2])
       /\ \E n \in 1..Len(result) :
            /\ result[n].id = segments[i].id
            /\ result[n].text.align
                 = _detect_text_alignment(matching[i][1].bbox, image.shape[2])

\* C30: get_processor constructs at most one ImageProcessor and every caller
\* gets that same instance.
C30_OneProcessor ==
  /\ constructed <= 1
  /\ \A t, u \in DOMAIN t_proc :
       (t_proc[t] # <<>> /\ t_proc[u] # <<>>) => t_proc[t] = t_proc[u]

====
